---------------------------- MODULE Spec2Model ----------------------------
(***************************************************************************)
(* Model of voice_app.py, a Streamlit script that resolves a spoken or     *)
(* typed medicine name against a catalog.                                  *)
(*                                                                         *)
(* A text is a sequence of one-character strings, so that the normalizer   *)
(* and the scorers are computed character by character.  Python's None is  *)
(* the one-element sequence None, which no text equals.                    *)
(* Scores are in hundredths of a point (7800 is 78.0), rounded down; for   *)
(* the lengths used here two different scores stay different.              *)
(***************************************************************************)
EXTENDS Naturals, Sequences, FiniteSets, TLC

VARIABLES env,      \* what the process finds at start: capabilities, catalog file
          ss,       \* st.session_state
          widgets,  \* Streamlit's widget state kept between script runs
          ui,       \* what the last script run did: event, messages, stage trace
          purchases, \* the file purchases.json
          call,     \* a direct call of one helper: its name and arguments
          ret       \* the results of that call

vars == <<env, ss, widgets, ui, purchases, call, ret>>

None == <<"None">>
Truthy(v) == v # None /\ v # <<>>

Max(a, b) == IF a >= b THEN a ELSE b
Min(a, b) == IF a <= b THEN a ELSE b

(***************************************************************************)
(* Characters and strings                                                  *)
(***************************************************************************)
LowerLetters == {"a", "b", "c", "d", "x"}
UpperLetters == {"A", "B", "C"}
Digits == {"1"}
Spaces == {" ", "\t"}

\* code points, for Python's string comparison
CharOrd(c) ==
  CASE c = "\t" -> 9  [] c = " " -> 32 [] c = "!" -> 33 [] c = "-" -> 45
    [] c = "1" -> 49  [] c = "A" -> 65 [] c = "B" -> 66 [] c = "C" -> 67
    [] c = "a" -> 97  [] c = "b" -> 98 [] c = "c" -> 99 [] c = "d" -> 100
    [] c = "x" -> 120

LowerChar(c) ==
  CASE c = "A" -> "a" [] c = "B" -> "b" [] c = "C" -> "c" [] OTHER -> c

lower(t) == [i \in 1..Len(t) |-> LowerChar(t[i])]

RECURSIVE StrLess(_, _)
StrLess(a, b) ==
  IF b = <<>> THEN FALSE
  ELSE IF a = <<>> THEN TRUE
  ELSE IF Head(a) # Head(b) THEN CharOrd(Head(a)) < CharOrd(Head(b))
  ELSE StrLess(Tail(a), Tail(b))

\* sorted(S) for a set of strings
sorted(S) ==
  [p \in 1..Cardinality(S) |->
     CHOOSE s \in S : Cardinality({r \in S : StrLess(r, s)}) = p - 1]

\* list.index(x): the first position holding x
IndexOf(seq, v) == CHOOSE i \in 1..Len(seq) :
                      seq[i] = v /\ \A j \in 1..(i - 1) : seq[j] # v

\* a sequence given by a rule, computed once into its elements
Listed(seq) == seq \o <<>>

\* the one element of a one-element set; Only({F(x) : x \in {e}}) is F(e)
\* with e computed once
Only(S) == CHOOSE v \in S : TRUE

Strs(chars, n) == UNION {[1..k -> chars] : k \in 0..n}

(***************************************************************************)
(* Text Normalizer: clean_recognizer_text                                  *)
(***************************************************************************)
IsSpace(c) == c \in Spaces
\* the character class [a-z0-9\s\-]
IsAllowed(c) == c \in LowerLetters \cup Digits \cup Spaces \cup {"-"}

RECURSIVE lstrip(_)
lstrip(t) == IF t # <<>> /\ IsSpace(Head(t)) THEN lstrip(Tail(t)) ELSE t

RECURSIVE rstrip(_)
rstrip(t) == IF t # <<>> /\ IsSpace(t[Len(t)])
             THEN rstrip(SubSeq(t, 1, Len(t) - 1)) ELSE t

strip(t) == rstrip(lstrip(t))

\* re.sub(r"[^a-z0-9\s\-]+", " ", t): every maximal run of characters
\* outside the class becomes one space
RECURSIVE sub_disallowed(_)
sub_disallowed(t) ==
  IF t = <<>> THEN <<>>
  ELSE IF ~IsAllowed(Head(t))
       THEN IF Len(t) > 1 /\ ~IsAllowed(t[2])
            THEN sub_disallowed(Tail(t))
            ELSE <<" ">> \o sub_disallowed(Tail(t))
       ELSE <<Head(t)>> \o sub_disallowed(Tail(t))

\* re.sub(r"\s+", " ", t): every maximal run of whitespace becomes one space
RECURSIVE sub_spaces(_)
sub_spaces(t) ==
  IF t = <<>> THEN <<>>
  ELSE IF IsSpace(Head(t))
       THEN IF Len(t) > 1 /\ IsSpace(t[2])
            THEN sub_spaces(Tail(t))
            ELSE <<" ">> \o sub_spaces(Tail(t))
       ELSE <<Head(t)>> \o sub_spaces(Tail(t))

\* the normalizer without the strip() that ends line 143
clean_NoFinalStrip(t) == sub_spaces(sub_disallowed(lower(strip(t))))

clean_recognizer_text(t) ==
  LET t1 == lower(strip(t))
      t2 == sub_disallowed(t1)
  IN  strip(sub_spaces(t2))

(***************************************************************************)
(* The environment of the process: optional imports (lines 8-27), the      *)
(* interpreter and Streamlit version, and the catalog file (lines 44-57).  *)
(***************************************************************************)
HAS_VAD == env.webrtcvad
HAS_NP == env.numpy
HAS_NR == env.numpy /\ env.noisereduce
HAS_FUZZ == env.rapidfuzz

\* medicine_db.json as the process finds it: env.db.file is "ok" (a JSON
\* object from name to variants, env.db.data), "absent", "corrupt" (not
\* JSON) or "list" (JSON, but an array)
DbFile(file, data) == [file |-> file, data |-> data]
MED_DB == IF env.db.file = "ok" THEN env.db.data ELSE << >>
Keys == DOMAIN MED_DB
ALL_MED_NAMES == Listed(sorted(Keys))
ALL_MED_NAMES_LOWER == Listed([i \in 1..Len(ALL_MED_NAMES) |-> lower(ALL_MED_NAMES[i])])

(***************************************************************************)
(* Candidate Matcher                                                       *)
(***************************************************************************)
\* 100 * 2*m / total, in hundredths
Pct(m, total) == (20000 * m) \div total

\* length of the longest common subsequence
RECURSIVE Lcs(_, _)
Lcs(a, b) ==
  IF a = <<>> \/ b = <<>> THEN 0
  ELSE IF Head(a) = Head(b) THEN 1 + Lcs(Tail(a), Tail(b))
  ELSE Max(Lcs(Tail(a), b), Lcs(a, Tail(b)))

\* rapidfuzz fuzz.ratio: the normalized Indel similarity
fuzz_ratio(a, b) ==
  IF Len(a) + Len(b) = 0 THEN 10000 ELSE Pct(Lcs(a, b), Len(a) + Len(b))

SetMax(S) == CHOOSE m \in S : \A o \in S : o <= m

\* rapidfuzz fuzz.partial_ratio: the best fuzz.ratio of the shorter string
\* against a window of the longer one (prefixes shorter than the needle,
\* every window of the needle's length, suffixes shorter than the needle)
fuzz_partial_ratio(a, b) ==
  LET needle == IF Len(a) <= Len(b) THEN a ELSE b
      hay    == IF Len(a) <= Len(b) THEN b ELSE a
      m == Len(needle)
      n == Len(hay)
      windows == {SubSeq(hay, 1, i) : i \in 1..(m - 1)}
                 \cup {SubSeq(hay, i, i + m - 1) : i \in 1..(n - m + 1)}
                 \cup {SubSeq(hay, i, n) : i \in (n - m + 2)..n}
  IN  IF m = 0 THEN (IF n = 0 THEN 10000 ELSE 0)
      ELSE SetMax({fuzz_ratio(needle, w) : w \in windows})

\* rapidfuzz fuzz.WRatio for strings of one token each (no inner
\* whitespace), which is what the catalogs and queries of this model are:
\* the token-sort and token-set scores then equal fuzz.ratio and, scaled
\* by 0.95, never exceed it.
WRatio(a, b) ==
  LET la == Len(a)
      lb == Len(b)
      base == fuzz_ratio(a, b)
      scale == IF Max(la, lb) <= 8 * Min(la, lb) THEN 90 ELSE 60
  IN  IF la = 0 \/ lb = 0 THEN 0
      ELSE IF 2 * Max(la, lb) < 3 * Min(la, lb) THEN base
      ELSE Max(base, (fuzz_partial_ratio(a, b) * scale) \div 100)

\* difflib.SequenceMatcher.find_longest_match on a[alo:ahi], b[blo:bhi]
\* (0-based, half-open): the longest common block, the one starting
\* earliest in a, then earliest in b; k = 0 when there is none
find_longest_match(a, b, alo, ahi, blo, bhi) ==
  LET blocks == {m \in [i : alo..(ahi - 1), j : blo..(bhi - 1),
                        k : 1..Max(ahi - alo, 1)] :
                   /\ m.i + m.k <= ahi
                   /\ m.j + m.k <= bhi
                   /\ \A d \in 1..m.k : a[m.i + d] = b[m.j + d]}
      Better(x, y) == \/ x.k > y.k
                      \/ x.k = y.k /\ x.i < y.i
                      \/ x.k = y.k /\ x.i = y.i /\ x.j < y.j
  IN  IF blocks = {} THEN [i |-> alo, j |-> blo, k |-> 0]
      ELSE CHOOSE m \in blocks : \A o \in blocks : o = m \/ Better(m, o)

\* the total size of difflib's get_matching_blocks
RECURSIVE matching_size(_, _, _, _, _, _)
matching_size(a, b, alo, ahi, blo, bhi) ==
  LET m == find_longest_match(a, b, alo, ahi, blo, bhi)
  IN  IF m.k = 0 THEN 0
      ELSE m.k + matching_size(a, b, alo, m.i, blo, m.j)
               + matching_size(a, b, m.i + m.k, ahi, m.j + m.k, bhi)

\* 100.0 * difflib.SequenceMatcher(None, a, b).ratio()
difflib_ratio(a, b) ==
  IF Len(a) + Len(b) = 0 THEN 10000
  ELSE Pct(matching_size(a, b, 0, Len(a), 0, Len(b)), Len(a) + Len(b))

\* the positions 1..n listed by a strict total order
Ordered(n, Before(_, _)) ==
  [p \in 1..n |->
     CHOOSE i \in 1..n : Cardinality({j \in 1..n : Before(j, i)}) = p - 1]

Take(seq, n) == SubSeq(seq, 1, Min(n, Len(seq)))

\* rapidfuzz process.extract(q, choices, scorer=fuzz.WRatio, limit=topn):
\* every choice with its score, best first, equal scores in input order
process_extract(q, choices, topn) ==
  Only({LET Before(i, j) == score[i] > score[j] \/ (score[i] = score[j] /\ i < j)
        IN  Only({Listed([p \in 1..Min(topn, Len(choices)) |->
                            [name |-> choices[order[p]], score |-> score[order[p]]]]) :
                  order \in {Listed(Ordered(Len(choices), Before))}}) :
        score \in {Listed([i \in 1..Len(choices) |-> WRatio(q, choices[i])])}})

\* difflib.get_close_matches(q, choices, n=topn, cutoff=0.0): it scores
\* with the choice as the first sequence and q as the second, and returns
\* heapq.nlargest of the (score, choice) pairs: the larger string first
\* among equal scores
get_close_matches(q, choices, topn) ==
  Only({LET Before(i, j) ==
              \/ score[i] > score[j]
              \/ score[i] = score[j] /\ StrLess(choices[j], choices[i])
              \/ score[i] = score[j] /\ choices[i] = choices[j] /\ i < j
        IN  Only({Listed([p \in 1..Min(topn, Len(choices)) |-> choices[order[p]]]) :
                  order \in {Listed(Ordered(Len(choices), Before))}}) :
        score \in {Listed([i \in 1..Len(choices) |-> difflib_ratio(choices[i], q)])}})

fuzzy_candidates(q, choices, topn) ==
  IF q = <<>> \/ choices = <<>> THEN <<>>
  ELSE IF HAS_FUZZ THEN process_extract(q, choices, topn)
  ELSE Only({Listed([p \in 1..Len(cands) |->
                       [name |-> cands[p], score |-> difflib_ratio(q, cands[p])]]) :
             cands \in {get_close_matches(q, choices, topn)}})

\* topn=5 (line 159) and threshold=78.0 (lines 194 and 212)
TOPN == 5
THRESHOLD == 7800

\* best_match without the threshold test: the first candidate always wins
best_match_NoThreshold(q, choices, threshold) ==
  Only({[best |-> IF cands # <<>> THEN cands[1].name ELSE None, cands |-> cands] :
        cands \in {fuzzy_candidates(q, choices, TOPN)}})

best_match(q, choices, threshold) ==
  Only({[best  |-> IF cands # <<>> /\ cands[1].score >= threshold
                   THEN cands[1].name ELSE None,
         cands |-> cands] :
        cands \in {fuzzy_candidates(q, choices, TOPN)}})

\* the original-case names of the candidates (lines 195 and 213)
Suggestions(names, lowered, cands) ==
  Listed([p \in 1..Len(cands) |-> names[IndexOf(lowered, cands[p].name)]])

\* the name stored as ss.medicine_name (lines 199 and 214)
Selected(names, lowered, best, fallback) ==
  IF Truthy(best) THEN names[IndexOf(lowered, best)] ELSE fallback

\* lines 194-199 (voice) and 212-214 (typed): the Resolution Policy on a
\* normalized query q, with the text kept when nothing is resolved
Resolve(q, fallback) ==
  Only({[best            |-> r.best,
         cands           |-> r.cands,
         suggestions     |-> Suggestions(names, lowered, r.cands),
         last_recog_conf |-> IF r.cands # <<>> THEN <<r.cands[1].score>> ELSE <<>>,
         medicine_name   |-> Selected(names, lowered, r.best, fallback)] :
        names \in {ALL_MED_NAMES}, lowered \in {ALL_MED_NAMES_LOWER},
        r \in {best_match(q, ALL_MED_NAMES_LOWER, THRESHOLD)}})

(***************************************************************************)
(* Audio helpers.  A PCM buffer is [rate, width, data], data a sequence of *)
(* bytes.  webrtcvad's classifier is outside the program: the decisions    *)
(* vad.is_speech returns, one per frame, are the argument is_speech.       *)
(***************************************************************************)
HANG == 3
AGGRESSIVENESS == 2
FRAME_MS == 30

bytes_per_frame(pcm, frame_ms) == ((pcm.rate * frame_ms) \div 1000) * pcm.width

\* lines 106-110: data padded with zero bytes to full frames
padded(pcm, frame_ms) ==
  LET bpf == bytes_per_frame(pcm, frame_ms)
  IN  IF Len(pcm.data) % bpf # 0
      THEN pcm.data \o [i \in 1..(bpf - (Len(pcm.data) % bpf)) |-> 0]
      ELSE pcm.data

\* line 111
frames_of(data, bpf) ==
  [f \in 1..(Len(data) \div bpf) |-> SubSeq(data, (f - 1) * bpf + 1, f * bpf)]

frame_count(pcm, frame_ms) ==
  Len(padded(pcm, frame_ms)) \div bytes_per_frame(pcm, frame_ms)

\* the loop with a hangover that is never used up: once a frame is voiced
\* every later frame is kept
RECURSIVE gate_loop_EndlessHangover(_, _, _, _, _)
gate_loop_EndlessHangover(frames, is_speech, i, keep_count, voiced) ==
  IF i > Len(frames) THEN voiced
  ELSE IF is_speech[i] \/ keep_count > 0
       THEN gate_loop_EndlessHangover(frames, is_speech, i + 1, HANG,
                                      Append(voiced, frames[i]))
       ELSE gate_loop_EndlessHangover(frames, is_speech, i + 1, keep_count, voiced)

\* lines 112-124: the loop over the frames from frame i on
RECURSIVE gate_loop(_, _, _, _, _)
gate_loop(frames, is_speech, i, keep_count, voiced) ==
  IF i > Len(frames) THEN voiced
  ELSE IF is_speech[i]
       THEN gate_loop(frames, is_speech, i + 1, HANG, Append(voiced, frames[i]))
       ELSE IF keep_count > 0
            THEN gate_loop(frames, is_speech, i + 1, keep_count - 1,
                           Append(voiced, frames[i]))
            ELSE gate_loop(frames, is_speech, i + 1, keep_count, voiced)

\* b"".join(voiced)
RECURSIVE join(_)
join(parts) == IF parts = <<>> THEN <<>> ELSE Head(parts) \o join(Tail(parts))

\* the gate returning the padded data when nothing is voiced
apply_vad_gating_PaddedFallback(pcm, aggressiveness, frame_ms, is_speech) ==
  IF ~HAS_VAD THEN pcm
  ELSE Only({[rate  |-> pcm.rate,
              width |-> pcm.width,
              data  |-> IF voiced # <<>> THEN join(voiced)
                        ELSE padded(pcm, frame_ms)] :
             voiced \in {gate_loop(frames_of(padded(pcm, frame_ms),
                                             bytes_per_frame(pcm, frame_ms)),
                                   is_speech, 1, 0, <<>>)}})

apply_vad_gating(pcm, aggressiveness, frame_ms, is_speech) ==
  IF ~HAS_VAD THEN pcm
  ELSE Only({[rate  |-> pcm.rate,
              width |-> pcm.width,
              data  |-> IF voiced # <<>> THEN join(voiced) ELSE pcm.data] :
             voiced \in {gate_loop(frames_of(padded(pcm, frame_ms),
                                             bytes_per_frame(pcm, frame_ms)),
                                   is_speech, 1, 0, <<>>)}})

(***************************************************************************)
(* Session state (lines 62-69) and what a script run leaves behind         *)
(***************************************************************************)
NoVariant == "None"
UNITS == <<"pack", "bottle", "strip", "box">>

SessionDefaults ==
  [medicine_name    |-> None,
   spoken_text      |-> None,
   selected_variant |-> NoVariant,
   quantity         |-> 1,
   unit             |-> "pack",
   suggestions      |-> <<>>,
   last_recog_conf  |-> <<>>]

NotRendered == [rendered |-> FALSE, param |-> <<>>, value |-> <<>>, byUser |-> FALSE]
NoWidgets == [text_input |-> NotRendered, pills |-> NotRendered]

NoRun == [event |-> "none", crashed |-> "no", errors |-> {}, trace |-> <<>>,
          capture |-> "none", attempts |-> <<>>, resolutions |-> <<>>,
          key |-> None, transcript |-> None, typed |-> <<>>, saved |-> <<>>]

NoCall == [fn |-> "none"]

\* every optional package present, an interpreter that evaluates
\* annotations when a def runs, a Streamlit that has st.pills
FullCaps == [webrtcvad |-> TRUE, numpy |-> TRUE, noisereduce |-> TRUE,
             rapidfuzz |-> TRUE, eager_annotations |-> TRUE, pills |-> TRUE]
WithDb(caps, db) == [webrtcvad |-> caps.webrtcvad, numpy |-> caps.numpy,
                     noisereduce |-> caps.noisereduce, rapidfuzz |-> caps.rapidfuzz,
                     eager_annotations |-> caps.eager_annotations,
                     pills |-> caps.pills, db |-> db]

\* the catalogs of the model: every name has the same two variants
VARIANTS == <<"tablet", "syrup">>
Catalog(names) == [k \in names |-> VARIANTS]

\* purchases.json: absent, a JSON list of records, or text that json.load
\* rejects (a write that was cut short, say) with the records it still holds
LogFile(kind, records) == [kind |-> kind, records |-> records]
NoLog == LogFile("absent", <<>>)

AppIdle == ss = SessionDefaults /\ widgets = NoWidgets /\ ui = NoRun /\ purchases = NoLog
AppUnchanged == UNCHANGED <<env, ss, widgets, ui, purchases>>

(***************************************************************************)
(* One run of the script.  Streamlit runs the whole script on every user   *)
(* event; session_state and the state of the widgets the previous run      *)
(* rendered are what survives.  A widget given no key is identified by     *)
(* its parameters: while they are the same it returns the value the user   *)
(* left in it, and when they change it is a new widget and returns its     *)
(* default.  The pills have a key, and are reset the same way when their   *)
(* options change.                                                         *)
(*                                                                         *)
(* The microphone, the recognizer and the user are outside the program:    *)
(* what they do in a run is its event e and its oracle o.  The audio goes  *)
(* from the capture through the gate and the denoiser into the recognizer  *)
(* only, so a run keeps the stages called (trace) and the buffer each      *)
(* transcription attempt was given (attempts), not the bytes.              *)
(***************************************************************************)
Event(kind, text) == [kind |-> kind, text |-> text]
Rec(kind, text) == [kind |-> kind, text |-> text]
Oracle(mic, listen, first, second) ==
  [mic |-> mic, listen |-> listen, first |-> first, second |-> second]
Skip == Rec("skip", <<>>)
NoOracle == Oracle("ok", "timeout", Skip, Skip)

\* the user's edit is in the widget state when the run starts
ApplyEvent(w, e) ==
  CASE e.kind = "type"   -> [w EXCEPT !.text_input.value = e.text]
    [] e.kind = "pick"   -> [w EXCEPT !.pills.value = e.text, !.pills.byUser = TRUE]
    [] e.kind = "unpick" -> [w EXCEPT !.pills.value = None, !.pills.byUser = TRUE]
    [] OTHER             -> w

\* lines 44-57 and line 90: the catalog is loaded, and the defs run.  A
\* JSON array has no keys() (line 56); the annotation np.ndarray of line 90
\* is evaluated when the def runs, on an interpreter that does so, and np
\* is unbound when numpy could not be imported.
Begin(ss0) ==
  [ss          |-> ss0,
   crashed     |-> IF env.db.file = "list" THEN "catalog"
                   ELSE IF ~HAS_NP /\ env.eager_annotations THEN "annotations"
                   ELSE "no",
   errors      |-> CASE env.db.file = "corrupt" -> {"db_corrupted"}
                     [] env.db.file = "absent"  -> {"db_not_found"}
                     [] OTHER                   -> {},
   trace       |-> <<>>,
   capture     |-> "none",
   attempts    |-> <<>>,
   resolutions |-> <<>>,
   key         |-> None,
   transcript  |-> None,
   typed       |-> <<>>,
   saved       |-> <<>>,
   purchases   |-> purchases,
   text_input  |-> NotRendered,
   pills       |-> NotRendered]

Resolution(path, raw, q, r) ==
  [path |-> path, raw |-> raw, q |-> q, best |-> r.best, cands |-> r.cands]

\* lines 190-199: the transcript is normalized, resolved and stored
Recognized(c, text) ==
  Only({Only({[c EXCEPT !.ss.spoken_text = spoken,
                        !.ss.suggestions = r.suggestions,
                        !.ss.last_recog_conf = r.last_recog_conf,
                        !.ss.medicine_name = r.medicine_name,
                        !.trace = @ \o <<"clean_recognizer_text", "best_match">>,
                        !.resolutions = Append(@, Resolution("voice", text, spoken, r)),
                        !.transcript = text] :
              r \in {Resolve(spoken, spoken)}}) :
        spoken \in {clean_recognizer_text(text)}})

Failed(c, message) == [c EXCEPT !.errors = @ \cup {message}]

\* a retry after any failure of the first attempt
ShouldRetry_AnyFailure(first) == first.kind # "text"

\* line 186: only sr.UnknownValueError leads to the second attempt
ShouldRetry(first) == first.kind = "unknown"

\* a timeout stored as an empty result, without a message
OnTimeout_EmptyResult(c) ==
  [c EXCEPT !.ss.spoken_text = <<>>, !.ss.medicine_name = <<>>]

\* lines 201-202
OnTimeout(c) == Failed(c, "timeout")

\* a handler that forgets the last transcript and its suggestions
OnCaptureError_ForgetsTranscript(c) ==
  [c EXCEPT !.errors = @ \cup {"audio_error"},
            !.ss.spoken_text = None, !.ss.suggestions = <<>>]

\* lines 205-206: anything else raised inside the try, the device failing
\* while it is read included
OnCaptureError(c) == Failed(c, "audio_error")

Attempt(audio, outcome) == [audio |-> audio, outcome |-> outcome.kind]

\* lines 184-188 and the handlers of lines 203-206
Transcribe(c, o) ==
  IF o.first.kind = "text" THEN Recognized(c, o.first.text)
  ELSE IF ~ShouldRetry(o.first)
       THEN Failed(c, IF o.first.kind = "request" THEN "service_unavailable"
                      ELSE "audio_error")
  ELSE Only({CASE o.second.kind = "text"    -> Recognized(c2, o.second.text)
               [] o.second.kind = "request" -> Failed(c2, "service_unavailable")
               [] OTHER                     -> Failed(c2, "audio_error") :
             c2 \in {[c EXCEPT !.trace = Append(@, "recognize_google"),
                               !.attempts = Append(@, Attempt("audio", o.second))]}})

\* lines 169-206: the Speak Medicine Name handler.  sr.Microphone is opened
\* outside the try: without a device the run ends there.
Voice(c, e, o) ==
  IF c.crashed # "no" \/ e.kind # "speak" THEN c
  ELSE IF o.mic = "fail"
       THEN [c EXCEPT !.crashed = "microphone", !.capture = "no_microphone"]
  ELSE IF o.listen = "timeout"
       THEN OnTimeout([c EXCEPT !.trace = <<"adjust_for_ambient_noise", "listen">>,
                                !.capture = "timeout"])
  ELSE IF o.listen = "error"
       THEN OnCaptureError([c EXCEPT !.trace = <<"adjust_for_ambient_noise", "listen">>,
                                     !.capture = "error"])
  ELSE Transcribe([c EXCEPT !.capture = "audio",
                            !.trace = <<"adjust_for_ambient_noise", "listen",
                                        "audio_to_pcm", "apply_vad_gating",
                                        "spectral_denoise", "recognize_google">>,
                            !.attempts = <<Attempt("audio_clean", o.first)>>], o)

\* lines 208-214: the text box and the typed path
TypedInput(c, w) ==
  IF c.crashed # "no" THEN c
  ELSE Only({Only({
         IF typed = <<>>
         THEN [c EXCEPT !.text_input = box]
         ELSE Only({[c EXCEPT !.text_input = box,
                              !.typed = typed,
                              !.ss.suggestions = r.suggestions,
                              !.ss.medicine_name = r.medicine_name,
                              !.resolutions = Append(@, Resolution("typed", typed, q, r))] :
                    q \in {clean_recognizer_text(typed)},
                    r \in {Resolve(clean_recognizer_text(typed), typed)}}) :
         box \in {[rendered |-> TRUE, param |-> value, value |-> typed,
                   byUser |-> FALSE]}}) :
       value \in {IF Truthy(c.ss.medicine_name) THEN c.ss.medicine_name ELSE <<>>},
       typed \in {IF /\ w.text_input.rendered
                     /\ w.text_input.param =
                          (IF Truthy(c.ss.medicine_name) THEN c.ss.medicine_name
                           ELSE <<>>)
                  THEN w.text_input.value
                  ELSE IF Truthy(c.ss.medicine_name) THEN c.ss.medicine_name
                  ELSE <<>>}})

\* lines 216-222: the suggestions, st.pills or st.radio, the first one the
\* default; whatever the widget returns becomes the selected medicine
Chips(c, w) ==
  IF c.crashed # "no" \/ c.ss.suggestions = <<>> THEN c
  ELSE Only({[c EXCEPT !.pills = [rendered |-> TRUE,
                                  param    |-> c.ss.suggestions,
                                  value    |-> sel,
                                  byUser   |-> kept /\ w.pills.byUser],
                       !.ss.medicine_name = IF Truthy(sel) THEN sel ELSE @] :
             kept \in {w.pills.rendered /\ w.pills.param = c.ss.suggestions},
             sel \in {IF w.pills.rendered /\ w.pills.param = c.ss.suggestions
                      THEN w.pills.value ELSE c.ss.suggestions[1]}})

Range(seq) == {seq[i] : i \in 1..Len(seq)}

\* line 229
KeyOf(med_name) ==
  IF med_name \in Keys THEN med_name
  ELSE IF lower(med_name) \in Keys THEN Listed(lower(med_name))
  ELSE None

\* lines 252-264: the log is read, the entry appended, the file rewritten;
\* a file json.load rejects is taken for an empty log
Save(file, entry) ==
  LogFile("list", IF file.kind = "list" THEN Append(file.records, entry)
                  ELSE <<entry>>)

\* lines 244-265
Submit(c, key) ==
  Only({[c EXCEPT !.purchases = Save(@, entry), !.saved = <<entry>>] :
        entry \in {[medicine_name    |-> key,
                    selected_variant |-> c.ss.selected_variant,
                    quantity         |-> c.ss.quantity,
                    unit             |-> c.ss.unit]}})

\* a form that keeps the remembered variant whatever the medicine
Form_RememberedVariantKept(c, e, key) ==
  [c EXCEPT !.key = key,
            !.ss.selected_variant =
               IF e.kind = "variant" THEN e.text
               ELSE IF @ # NoVariant THEN @
               ELSE MED_DB[key][1],
            !.ss.quantity = IF e.kind = "quantity" THEN e.text ELSE @,
            !.ss.unit = IF e.kind = "unit" THEN e.text ELSE @]

\* lines 232-242: the variant box keeps the remembered variant when the
\* medicine has it and shows the first one otherwise; the three boxes
\* return what the user chose in them
Form(c, e, key) ==
  Only({[c EXCEPT !.key = key,
                  !.ss.selected_variant =
                     IF e.kind = "variant" /\ e.text \in Range(options) THEN e.text
                     ELSE IF @ \in Range(options) THEN @
                     ELSE options[1],
                  !.ss.quantity = IF e.kind = "quantity" THEN e.text ELSE @,
                  !.ss.unit = IF e.kind = "unit" THEN e.text ELSE @] :
        options \in {MED_DB[key]}})

\* lines 227-267: the form and Submit, or the message that the medicine is
\* not in the database
Selection(c, e) ==
  IF c.crashed # "no" \/ ~Truthy(c.ss.medicine_name) THEN c
  ELSE Only({IF key = None THEN Failed(c, "not_found")
             ELSE IF e.kind = "submit" THEN Submit(Form(c, e, key), key)
             ELSE Form(c, e, key) :
             key \in {KeyOf(c.ss.medicine_name)}})

Done(c, e) ==
  [ss        |-> c.ss,
   purchases |-> c.purchases,
   widgets   |-> [text_input |-> c.text_input, pills |-> c.pills],
   ui      |-> [event |-> e.kind, crashed |-> c.crashed, errors |-> c.errors,
                trace |-> c.trace, capture |-> c.capture,
                attempts |-> c.attempts,
                resolutions |-> c.resolutions, key |-> c.key,
                transcript |-> c.transcript, typed |-> c.typed,
                saved |-> c.saved]]

\* the script from top to bottom
Script(w0, ss0, e, o) ==
  Only({Only({Only({Only({Done(c4, e) :
                          c4 \in {Selection(c3, e)}}) :
                    c3 \in {Chips(c2, w)}}) :
              c2 \in {TypedInput(c1, w)}}) :
        c1 \in {Voice(Begin(ss0), e, o)}, w \in {ApplyEvent(w0, e)}})

(***************************************************************************)
(* The application: a session from its first run on                        *)
(***************************************************************************)
Transcripts == {<<"A", "b">>, <<"x">>, <<"!">>}
TypedTexts == Transcripts \cup {<<>>}

\* webrtcvad and noisereduce change only the bytes handed to the recognizer,
\* which a session does not follow: they are varied where the gate is called
Caps == [webrtcvad : {TRUE}, numpy : BOOLEAN, noisereduce : {TRUE},
         rapidfuzz : BOOLEAN, eager_annotations : BOOLEAN, pills : BOOLEAN]
DbFiles == {DbFile("absent", << >>), DbFile("corrupt", << >>),
            DbFile("list", << >>), DbFile("ok", Catalog({})),
            DbFile("ok", Catalog({<<"A", "b">>, <<"C", "d">>}))}

Finals == {Rec("text", t) : t \in Transcripts} \cup {Rec("request", <<>>)}
VoiceOracles ==
  {Oracle("fail", "timeout", Skip, Skip), Oracle("ok", "timeout", Skip, Skip),
   Oracle("ok", "error", Skip, Skip)}
  \cup {Oracle("ok", "audio", first, Skip) : first \in Finals}
  \cup {Oracle("ok", "audio", Rec("unknown", <<>>), second) :
          second \in Finals \cup {Rec("unknown", <<>>)}}

Init ==
  /\ env \in {WithDb(caps, db) : caps \in Caps, db \in DbFiles}
  /\ purchases = NoLog
  /\ \E r \in {Script(NoWidgets, SessionDefaults, Event("load", <<>>), NoOracle)} :
       ss = r.ss /\ widgets = r.widgets /\ ui = r.ui
  /\ call = NoCall
  /\ ret = <<>>

Step(e, o) ==
  /\ \E r \in {Script(widgets, ss, e, o)} :
       ss' = r.ss /\ widgets' = r.widgets /\ ui' = r.ui /\ purchases' = r.purchases
  /\ UNCHANGED <<env, call, ret>>

\* the user asks for a rerun
Rerun == Step(Event("rerun", <<>>), NoOracle)

\* the user presses Speak Medicine Name, which the last run rendered
Speak ==
  /\ ui.crashed \in {"no", "microphone"}
  /\ \E o \in VoiceOracles : Step(Event("speak", <<>>), o)

\* the user changes the text in the box
TypeText ==
  /\ widgets.text_input.rendered
  /\ \E t \in TypedTexts \ {widgets.text_input.value} :
       Step(Event("type", t), NoOracle)

\* the user picks another suggestion
PickSuggestion ==
  /\ widgets.pills.rendered
  /\ \E s \in Range(widgets.pills.param) \ {widgets.pills.value} :
       Step(Event("pick", s), NoOracle)

\* the user clicks the selected pill again, which st.pills deselects
UnpickSuggestion ==
  /\ widgets.pills.rendered
  /\ env.pills
  /\ widgets.pills.value # None
  /\ Step(Event("unpick", <<>>), NoOracle)

Next == Rerun \/ Speak \/ TypeText \/ PickSuggestion \/ UnpickSuggestion

Spec == Init /\ [][Next]_vars

(***************************************************************************)
(* Direct calls of clean_recognizer_text: once, then on its own result     *)
(***************************************************************************)
MaxNormLen == 3
NormChars == {"a", "A", "1", "-", " ", "\t", "!"}

InitNorm ==
  /\ env = WithDb(FullCaps, DbFile("absent", << >>))
  /\ AppIdle
  /\ call \in {[fn |-> "clean_recognizer_text", t |-> t] :
                 t \in Strs(NormChars, MaxNormLen)}
  /\ ret = <<>>

Normalize ==
  /\ call.fn = "clean_recognizer_text"
  /\ ret = <<>>
  /\ ret' = <<clean_recognizer_text(call.t)>>
  /\ UNCHANGED call
  /\ AppUnchanged

NormalizeAgain ==
  /\ call.fn = "clean_recognizer_text"
  /\ Len(ret) = 1
  /\ ret' = Append(ret, clean_recognizer_text(ret[1]))
  /\ UNCHANGED call
  /\ AppUnchanged

NextNorm == Normalize \/ NormalizeAgain

SpecNorm == InitNorm /\ [][NextNorm]_vars

(***************************************************************************)
(* Direct calls of the Resolution Policy                                   *)
(***************************************************************************)
MaxQueryLen == 3
QueryChars == {"a", "b", "c", "d"}
NameUniverse == {<<"A", "b">>, <<"A", "B">>, <<"A", "b", "c">>, <<"C", "d">>}

InitMatch ==
  /\ env \in {WithDb([FullCaps EXCEPT !.rapidfuzz = f], DbFile("ok", Catalog(names))) :
                f \in BOOLEAN, names \in SUBSET NameUniverse}
  /\ AppIdle
  /\ call \in {[fn |-> "best_match", q |-> q] :
                 q \in Strs(QueryChars, MaxQueryLen)}
  /\ ret = <<>>

CallResolve ==
  /\ call.fn = "best_match"
  /\ ret = <<>>
  /\ ret' = <<Resolve(call.q, call.q)>>
  /\ UNCHANGED call
  /\ AppUnchanged

NextMatch == CallResolve

SpecMatch == InitMatch /\ [][NextMatch]_vars

(***************************************************************************)
(* Direct calls of apply_vad_gating.  The rates are scaled down so that a  *)
(* 30 ms frame is one or two samples.                                      *)
(***************************************************************************)
MaxGateBytes == 6
GateRates == {34, 67}
GateWidths == {1, 2}
SampleBytes == {0, 1}

InitGate ==
  /\ env \in {WithDb([FullCaps EXCEPT !.webrtcvad = v], DbFile("absent", << >>)) :
                v \in BOOLEAN}
  /\ AppIdle
  /\ call \in {[fn |-> "apply_vad_gating",
                pcm |-> [rate |-> r, width |-> w, data |-> d]] :
                 r \in GateRates, w \in GateWidths,
                 d \in Strs(SampleBytes, MaxGateBytes)}
  /\ ret = <<>>

CallGate ==
  /\ call.fn = "apply_vad_gating"
  /\ ret = <<>>
  /\ \E is_speech \in [1..(IF HAS_VAD THEN frame_count(call.pcm, FRAME_MS) ELSE 0)
                         -> BOOLEAN] :
       ret' = <<[is_speech |-> is_speech,
                 out |-> apply_vad_gating(call.pcm, AGGRESSIVENESS, FRAME_MS,
                                          is_speech)]>>
  /\ UNCHANGED call
  /\ AppUnchanged

NextGate == CallGate

SpecGate == InitGate /\ [][NextGate]_vars

(***************************************************************************)
(* The application with its form: a session that chooses a variant, a      *)
(* quantity and a unit and presses Submit, over a purchases.json that may  *)
(* exist already.  The medicine comes in through the text box and the      *)
(* suggestions.                                                            *)
(***************************************************************************)
MaxLog == 1
Quantities == {1, 2}
FormUnits == {"pack", "box"}

\* a catalog whose medicines differ in their variants
Formulary == (<<"A", "b">> :> <<"tablet", "syrup">>) @@ (<<"C", "d">> :> <<"drops">>)
Earlier == [medicine_name |-> <<"A", "b">>, selected_variant |-> "tablet",
            quantity |-> 1, unit |-> "pack"]
LogFiles == {NoLog, LogFile("list", <<>>), LogFile("corrupt", <<Earlier>>)}

InitSave ==
  /\ env = WithDb(FullCaps, DbFile("ok", Formulary))
  /\ purchases \in LogFiles
  /\ \E r \in {Script(NoWidgets, SessionDefaults, Event("load", <<>>), NoOracle)} :
       ss = r.ss /\ widgets = r.widgets /\ ui = r.ui
  /\ call = NoCall
  /\ ret = <<>>

\* the user chooses another variant in the box the last run rendered
PickVariant ==
  /\ ui.key # None
  /\ \E v \in Range(MED_DB[ui.key]) \ {ss.selected_variant} :
       Step(Event("variant", v), NoOracle)

\* st.number_input with min_value=1
SetQuantity ==
  /\ ui.key # None
  /\ \E n \in Quantities \ {ss.quantity} : Step(Event("quantity", n), NoOracle)

SetUnit ==
  /\ ui.key # None
  /\ \E u \in (Range(UNITS) \cap FormUnits) \ {ss.unit} :
       Step(Event("unit", u), NoOracle)

\* the user presses Submit, which the last run rendered
PressSubmit ==
  /\ ui.key # None
  /\ purchases.kind = "list" => Len(purchases.records) < MaxLog
  /\ Step(Event("submit", <<>>), NoOracle)

NextSave ==
  \/ TypeText \/ PickSuggestion \/ PickVariant \/ SetQuantity \/ SetUnit
  \/ PressSubmit

SpecSave == InitSave /\ [][NextSave]_vars

\* the run a new session makes on event e, after its first run
FreshRun(e, o) ==
  Only({Script(first.widgets, first.ss, e, o) :
        first \in {Script(NoWidgets, SessionDefaults, Event("load", <<>>), NoOracle)}})

Last(seq) == seq[Len(seq)]
Heard(text) == Oracle("ok", "audio", Rec("text", text), Skip)

\* what the voice handler of a run showed, and the kind of failure the run
\* had: the capture's (lines 170-174) or the transcription's (lines 184-188)
VoiceMessages(u) == u.errors \cap {"timeout", "service_unavailable", "audio_error"}
FailureKind(u) ==
  CASE u.capture = "timeout"                         -> "CaptureTimeout"
    [] u.capture \in {"no_microphone", "error"}      -> "CaptureServiceUnavailable"
    [] u.capture = "audio" /\ u.transcript = None /\
       Last(u.attempts).outcome = "unknown"          -> "TranscriptionUnrecognized"
    [] u.capture = "audio" /\ u.transcript = None /\
       Last(u.attempts).outcome = "request"          -> "ServiceUnavailable"
    [] OTHER                                         -> "none"

(***************************************************************************)
(* Claims                                                                  *)
(***************************************************************************)

\* C2: the Resolution Policy (threshold 78.0, topN 5) resolves exactly when
\* the first candidate scores at least 78.0; the resolved value is then a
\* Catalog key whose lowercase form is that candidate's name; otherwise the
\* policy selects no key and keeps the query text.
C2_ResolvedIffTopScore ==
  (call.fn = "best_match" /\ ret # <<>>) =>
    LET r == ret[1]
        top == r.cands # <<>> /\ r.cands[1].score >= THRESHOLD
    IN  /\ Len(r.cands) <= TOPN
        /\ (r.best # None) <=> top
        /\ top => /\ r.medicine_name \in Keys
                  /\ lower(r.medicine_name) = r.cands[1].name
                  /\ r.best = r.cands[1].name
        /\ ~top => r.medicine_name = call.q

\* a query resolved by a close but inexact match
C2_Witness ==
  /\ call.fn = "best_match" /\ ret # <<>>
  /\ ret[1].best # None
  /\ ret[1].cands[1].score < 10000
  /\ ret[1].medicine_name # call.q

\* C7: clean_recognizer_text returns a string for every string, is
\* idempotent, and maps the empty string and strings of only disallowed
\* characters to the empty string.
C7_NormalizeIdempotent ==
  (call.fn = "clean_recognizer_text") =>
    /\ Len(ret) >= 1 =>
         /\ ret[1] \in Seq(LowerLetters \cup Digits \cup {"-", " "})
         /\ (\A i \in 1..Len(call.t) : ~IsAllowed(LowerChar(call.t[i]))) => ret[1] = <<>>
    /\ Len(ret) = 2 => ret[2] = ret[1]

\* a text with capitals, punctuation and whitespace that was normalized
\* twice to a non-empty result
C7_Witness ==
  /\ call.fn = "clean_recognizer_text"
  /\ Len(ret) = 2
  /\ ret[1] # <<>>
  /\ ret[1] # call.t
  /\ \E i \in 1..Len(call.t) : ~IsAllowed(call.t[i])

\* C6: when no frame is classified Speech (also for a buffer that is not a
\* whole number of frames, and for the empty buffer), apply_vad_gating
\* returns the input's own unpadded data with the same rate and width.
C6_PassThroughOnNoSpeech ==
  (call.fn = "apply_vad_gating" /\ ret # <<>>) =>
    ((\A f \in 1..Len(ret[1].is_speech) : ~ret[1].is_speech[f]) =>
       /\ ret[1].out.data = call.pcm.data
       /\ ret[1].out.rate = call.pcm.rate
       /\ ret[1].out.width = call.pcm.width)

\* the classifier ran on a padded last frame and found no speech
C6_Witness ==
  /\ call.fn = "apply_vad_gating" /\ ret # <<>>
  /\ HAS_VAD
  /\ Len(ret[1].is_speech) >= 2
  /\ \A f \in 1..Len(ret[1].is_speech) : ~ret[1].is_speech[f]
  /\ Len(call.pcm.data) % bytes_per_frame(call.pcm, FRAME_MS) # 0
  /\ ret[1].out.data = call.pcm.data

\* C1: when the top score is below 78.0 the top suggestion is only a hint:
\* unless the user picked it, it is not the selected medicine (the text the
\* user gave stays selected), on the voice path and on the typed path.
C1_TopSuggestionNotAutoSelected ==
  (ui.crashed = "no" /\ ui.resolutions # <<>> /\ ~widgets.pills.byUser) =>
    LET r == Last(ui.resolutions)
    IN  (r.best = None /\ r.cands # <<>> /\ ss.suggestions[1] # r.raw) =>
          ss.medicine_name # ss.suggestions[1]

\* C3: transcription is tried first on the gated and denoised audio; it is
\* retried, once, on the captured audio exactly when that attempt failed as
\* unrecognized; there is no third attempt, and a retry that is
\* unrecognized too ends the capture with no transcript.
C3_RetryOnceOnUnrecognized ==
  LET a == ui.attempts
  IN  /\ Len(a) <= 2
      /\ Len(a) = Cardinality({i \in 1..Len(ui.trace) :
                                 ui.trace[i] = "recognize_google"})
      /\ Len(a) >= 1 =>
           /\ a[1].audio = "audio_clean"
           /\ SubSeq(ui.trace, 1, 6) =
                <<"adjust_for_ambient_noise", "listen", "audio_to_pcm",
                  "apply_vad_gating", "spectral_denoise", "recognize_google">>
           /\ (Len(a) = 2) <=> (a[1].outcome = "unknown")
      /\ Len(a) = 2 =>
           /\ a[2].audio = "audio"
           /\ a[2].outcome = "unknown" =>
                /\ ui.transcript = None
                /\ "audio_error" \in ui.errors
                /\ \A i \in 1..Len(ui.resolutions) : ui.resolutions[i].path # "voice"

\* the first attempt was unrecognized and the retry returned a transcript
C3_Witness ==
  /\ Len(ui.attempts) = 2
  /\ ui.attempts[1].outcome = "unknown"
  /\ ui.attempts[2].outcome = "text"
  /\ ui.transcript # None

\* C4: when the capture ends with a timeout no later stage runs for it, the
\* timeout message is shown, and no empty result is stored as the spoken
\* text or as the selected medicine.
C4_TimeoutStopsPipeline ==
  [][ui'.capture = "timeout" =>
       /\ "timeout" \in ui'.errors
       /\ ui'.trace = <<"adjust_for_ambient_noise", "listen">>
       /\ ui'.attempts = <<>>
       /\ ui'.transcript = None
       /\ \A i \in 1..Len(ui'.resolutions) : ui'.resolutions[i].path # "voice"
       /\ ss'.spoken_text = ss.spoken_text
       /\ ss'.last_recog_conf = ss.last_recog_conf
       /\ ss'.medicine_name = <<>> => ss.medicine_name = <<>>]_vars

\* a capture timed out in a session that holds an earlier spoken text
C4_Witness ==
  /\ ui.capture = "timeout"
  /\ "timeout" \in ui.errors
  /\ ss.spoken_text # None
  /\ Truthy(ss.medicine_name)

\* C5: whichever optional capabilities are missing, the program starts and
\* runs: no run ends because a capability is missing.
C5_MissingCapabilityNeverFails ==
  ui.crashed # "annotations"

\* C8: when the Catalog or the normalized query is empty there are no
\* candidates and no suggestions, the text given stays the selected
\* medicine, and it is flagged "not found" unless it equals a Catalog key
\* case-insensitively; on the typed path and on the voice path.
C8_EmptyMatchFlaggedNotFound ==
  (ui.crashed = "no" /\ ui.resolutions # <<>>) =>
    LET r == Last(ui.resolutions)
    IN  (Keys = {} \/ r.q = <<>>) =>
          /\ r.cands = <<>>
          /\ ss.suggestions = <<>>
          /\ ss.medicine_name \in {r.raw, r.q}
          /\ (\A k \in Keys : lower(k) # lower(r.raw)) => "not_found" \in ui.errors

\* C9: after a run in which a capture was transcribed, the selected medicine
\* and the suggestions are those a new session gets for the same transcript
\* and Catalog.
C9_SelectionFromTranscriptOnly ==
  (ui.event = "speak" /\ ui.transcript # None) =>
    LET fresh == FreshRun(Event("speak", <<>>), Heard(ui.transcript))
    IN  /\ ss.medicine_name = fresh.ss.medicine_name
        /\ ss.suggestions = fresh.ss.suggestions

\* C10: a text typed into a new session gives the outcome the same text
\* gives as a transcript: the same key, or the same suggestions with the
\* same text kept as the selected medicine.
C10_TypedAndSpokenAgree ==
  [][(ui.event = "load" /\ ui'.event = "type" /\ ui'.typed # <<>>) =>
       LET spoken == FreshRun(Event("speak", <<>>), Heard(ui'.typed))
       IN  /\ ss'.medicine_name = spoken.ss.medicine_name
           /\ ss'.suggestions = spoken.ss.suggestions
           /\ ui'.key = spoken.ui.key]_vars

\* C11: every failed capture or transcription shows one message, and runs
\* that fail in different kinds (capture timeout, capture device or service
\* failure, still unrecognized after the retry, transcription service
\* unavailable) show different messages; in particular no capture failure
\* shows the message of a transcription failure.
C11_FailureMessagesDistinct ==
  (ui.event = "speak" /\ FailureKind(ui) # "none") =>
    /\ Cardinality(VoiceMessages(ui)) = 1
    /\ \A o \in VoiceOracles :
         LET other == FreshRun(Event("speak", <<>>), o).ui
         IN  FailureKind(other) \notin {"none", FailureKind(ui)} =>
               VoiceMessages(other) # VoiceMessages(ui)

\* C12: when the catalog file is absent or malformed (not JSON, or JSON that
\* is not a mapping) no run ends at the load: an error is shown, the
\* Catalog is empty, and a text typed afterwards is resolved, to no
\* candidates, and flagged "not found".
C12_CatalogLoadNeverCrashes ==
  (env.db.file # "ok") =>
    /\ ui.crashed # "catalog"
    /\ ui.errors \cap {"db_corrupted", "db_not_found"} # {}
    /\ (ui.crashed = "no" /\ ui.event = "type" /\ ui.typed # <<>>) =>
         /\ Keys = {}
         /\ ui.resolutions # <<>>
         /\ Last(ui.resolutions).cands = <<>>
         /\ "not_found" \in ui.errors

\* C13: when some frame is classified Speech, apply_vad_gating returns, in
\* their order, exactly the frames that are Speech or among the first 3
\* Silence frames in a row after a Speech frame; Silence before the first
\* Speech frame and Silence more than 3 frames after the last one is dropped.
C13_HangoverOfThreeFrames ==
  (call.fn = "apply_vad_gating" /\ ret # <<>> /\ HAS_VAD) =>
    LET is_speech == ret[1].is_speech
        frames == frames_of(padded(call.pcm, FRAME_MS),
                            bytes_per_frame(call.pcm, FRAME_MS))
        retained == {f \in 1..Len(frames) :
                       \/ is_speech[f]
                       \/ \E j \in 1..(f - 1) :
                            /\ is_speech[j]
                            /\ f - j <= 3
                            /\ \A k \in (j + 1)..f : ~is_speech[k]}
        nth(i) == CHOOSE f \in retained :
                    Cardinality({g \in retained : g < f}) = i - 1
    IN  (\E f \in 1..Len(frames) : is_speech[f]) =>
          /\ ret[1].out.data =
               join([i \in 1..Cardinality(retained) |-> frames[nth(i)]])
          /\ ret[1].out.rate = call.pcm.rate
          /\ ret[1].out.width = call.pcm.width

\* one voiced frame after a silent one and before five silent ones: the
\* voiced frame and three more are returned
C13_Witness ==
  /\ call.fn = "apply_vad_gating" /\ ret # <<>>
  /\ HAS_VAD
  /\ Len(ret[1].is_speech) = 6
  /\ \A f \in 1..6 : ret[1].is_speech[f] <=> (f = 2)
  /\ call.pcm.data = <<1, 1, 0, 1, 0, 1>>
  /\ ret[1].out.data = <<1, 0, 1, 0>>

\* C14: with either scorer the matcher returns at most topn candidates, each
\* a name of choices with a score in [0,100], in non-increasing order of
\* the scores it reports, candidates of equal score in the order of choices.
C14_RankedByScoreThenCatalogOrder ==
  (call.fn = "best_match" /\ ret # <<>>) =>
    LET cands == ret[1].cands
        choices == ALL_MED_NAMES_LOWER
    IN  /\ Len(cands) <= TOPN
        /\ \A i \in 1..Len(cands) :
             /\ cands[i].name \in Range(choices)
             /\ cands[i].score >= 0 /\ cands[i].score <= 10000
        /\ \A i \in 1..Len(cands) : \A j \in (i + 1)..Len(cands) :
             /\ cands[i].score >= cands[j].score
             /\ cands[i].score = cands[j].score =>
                  IndexOf(choices, cands[i].name) <= IndexOf(choices, cands[j].name)

\* C15: when the last frame was completed with zero padding and is
\* classified Silence, the output holds none of the padding: it is the
\* input's own data, or is made of whole frames before the last one.
C15_PaddingNotPassedOn ==
  (call.fn = "apply_vad_gating" /\ ret # <<>> /\ HAS_VAD) =>
    LET is_speech == ret[1].is_speech
        bpf == bytes_per_frame(call.pcm, FRAME_MS)
        frames == frames_of(padded(call.pcm, FRAME_MS), bpf)
        n == Len(frames)
        Picked(I) == join([i \in 1..Cardinality(I) |->
                             frames[CHOOSE f \in I :
                                      Cardinality({g \in I : g < f}) = i - 1]])
    IN  (Len(call.pcm.data) % bpf # 0 /\ ~is_speech[n]) =>
          \/ ret[1].out.data = call.pcm.data
          \/ \E I \in SUBSET (1..(n - 1)) : ret[1].out.data = Picked(I)

\* C16: every Submit leaves the log holding the records it held before, in
\* their order, followed by the one new record, also when the file could
\* not be parsed; no other step changes the log.
C16_LogAppendOnly ==
  [][/\ ui'.saved # <<>> =>
          /\ ui'.event = "submit"
          /\ purchases'.records = Append(purchases.records, ui'.saved[1])
     /\ ui'.saved = <<>> => purchases' = purchases]_vars

\* C17: every record Submit writes names a Catalog key, one of that key's
\* variants, a quantity of at least 1 and one of the four units; nothing is
\* written while the selected medicine is not a Catalog key.
C17_SavedRecordValid ==
  /\ ui.saved # <<>> =>
       /\ ui.event = "submit"
       /\ Last(purchases.records) = ui.saved[1]
       /\ KeyOf(ss.medicine_name) = ui.saved[1].medicine_name
       /\ ui.saved[1].selected_variant = ss.selected_variant
  /\ (ui.event = "submit" /\ KeyOf(ss.medicine_name) = None) => ui.saved = <<>>
  /\ \A rec \in Range(ui.saved) \cup Range(purchases.records) :
       /\ rec.medicine_name \in Keys
       /\ rec.selected_variant \in Range(MED_DB[rec.medicine_name])
       /\ rec.quantity >= 1
       /\ rec.unit \in Range(UNITS)

\* a record saved for the medicine that has one variant only, with a
\* quantity and a unit the user set
C17_Witness ==
  /\ ui.event = "submit"
  /\ ui.saved = <<[medicine_name |-> <<"C", "d">>, selected_variant |-> "drops",
                   quantity |-> 2, unit |-> "box"]>>
  /\ purchases = LogFile("list", ui.saved)

\* C18: a press of Speak that ends in a failure (timeout, no device, device
\* error, service unavailable, unrecognized after the retry) leaves
\* spoken_text, suggestions, last_recog_conf and medicine_name as the voice
\* handler found them; a press that ends with a transcript writes all four
\* from it.
C18_FailedVoiceWritesNothing ==
  (ui.crashed \in {"no", "microphone"}) =>
    \A o \in VoiceOracles :
      LET c == Voice(Begin(ss), Event("speak", <<>>), o)
          r == Resolve(clean_recognizer_text(c.transcript),
                       clean_recognizer_text(c.transcript))
      IN  /\ c.transcript = None =>
               /\ c.ss.spoken_text = ss.spoken_text
               /\ c.ss.suggestions = ss.suggestions
               /\ c.ss.last_recog_conf = ss.last_recog_conf
               /\ c.ss.medicine_name = ss.medicine_name
               /\ c.resolutions = <<>>
          /\ c.transcript # None =>
               /\ c.ss.spoken_text = clean_recognizer_text(c.transcript)
               /\ c.ss.suggestions = r.suggestions
               /\ c.ss.last_recog_conf = r.last_recog_conf
               /\ c.ss.medicine_name = r.medicine_name

\* a capture that stayed unrecognized, in a session that holds an earlier
\* transcript, its suggestions and its score
C18_Witness ==
  /\ ui.event = "speak"
  /\ FailureKind(ui) = "TranscriptionUnrecognized"
  /\ ss.spoken_text # None
  /\ ss.suggestions # <<>>
  /\ ss.last_recog_conf # <<>>
  /\ Truthy(ss.medicine_name)

=============================================================================
